---------------------------- MODULE Spec2Model ----------------------------
(***************************************************************************)
(* A model of redcap2xlsform.py: the conversion of a REDCap data           *)
(* dictionary (headers + rows of string cells) into XLSForm documents.     *)
(*                                                                         *)
(* Representation.  A Python str is a sequence of one-character strings    *)
(* (<<"[", "a", "]">> is '[a]'), so that the regular expressions, split    *)
(* and strip of the source are computed character by character.  Only the  *)
(* cells the source compares against fixed vocabularies and never takes    *)
(* apart ('Field Type', the validation type) are atomic strings.  An       *)
(* XLSForm type such as 'select_one list_0' is the tuple of its            *)
(* space-separated words, <<"select_one", "list_0">>.                       *)
(***************************************************************************)
EXTENDS Integers, Sequences, FiniteSets, TLC

(***************************************************************************)
(* Characters and character classes of Python's re module.                 *)
(***************************************************************************)
LowerLetters ==
    <<"a","b","c","d","e","f","g","h","i","j","k","l","m",
      "n","o","p","q","r","s","t","u","v","w","x","y","z">>

UpperLetters ==
    <<"A","B","C","D","E","F","G","H","I","J","K","L","M",
      "N","O","P","Q","R","S","T","U","V","W","X","Y","Z">>

DigitChars == <<"0","1","2","3","4","5","6","7","8","9">>

Range(f) == { f[x] : x \in DOMAIN f }

\* \w
WordChars == Range(LowerLetters) \cup Range(UpperLetters) \cup Range(DigitChars) \cup {"_"}

\* \s
SpaceChars == {" ", "\t", "\n"}

\* ['"]
QuoteChars == {"'", "\""}

\* str.lower() of one character ((?i) matching)
Lower(c) ==
    IF \E k \in DOMAIN UpperLetters : UpperLetters[k] = c
    THEN LowerLetters[CHOOSE k \in DOMAIN UpperLetters : UpperLetters[k] = c]
    ELSE c

\* str(n) for a natural number
RECURSIVE Str(_)
Str(n) == IF n < 10 THEN <<DigitChars[n + 1]>>
          ELSE Str(n \div 10) \o <<DigitChars[(n % 10) + 1]>>

\* first index of x in the list s (list.index); 0 when absent
RECURSIVE IndexFrom(_, _, _)
IndexFrom(s, x, i) ==
    IF i > Len(s) THEN 0
    ELSE IF s[i] = x THEN i
    ELSE IndexFrom(s, x, i + 1)

Index(s, x) == IndexFrom(s, x, 1)

\* the concatenation of a sequence of sequences
RECURSIVE Flatten(_)
Flatten(ss) == IF ss = <<>> THEN <<>> ELSE Head(ss) \o Flatten(Tail(ss))

(***************************************************************************)
(* The regular-expression engine, for the patterns of the source.  A       *)
(* pattern is the sequence of its items, each a character class with a     *)
(* repetition range, and the items spanned by each group.  Every pattern   *)
(* of the source is a mandatory head followed by greedy items none of      *)
(* which can give characters back to the next one, so the greedy attempt   *)
(* at a position is the match Python finds there.                          *)
(***************************************************************************)

\* one item: between min and max characters of the class (any number from
\* min on when not bounded); neg is [^...], ci is the (?i) flag
Item(cls, neg, ci, min, bounded, max) ==
    [cls |-> cls, neg |-> neg, ci |-> ci, min |-> min, bounded |-> bounded, max |-> max]

\* X*
Star(cls) == Item(cls, FALSE, FALSE, 0, FALSE, 0)

\* [^X]*
StarNot(cls) == Item(cls, TRUE, FALSE, 0, FALSE, 0)

\* X+
Plus(cls) == Item(cls, FALSE, FALSE, 1, FALSE, 0)

\* X?
Opt(cls) == Item(cls, FALSE, FALSE, 0, TRUE, 1)

\* X{,n}
AtMost(cls, n) == Item(cls, FALSE, FALSE, 0, TRUE, n)

\* a literal text, case-insensitively when ci
Literal(text, ci) == [k \in 1..Len(text) |-> Item({text[k]}, FALSE, ci, 1, TRUE, 1)]

Pattern(items, groups) == [items |-> items, groups |-> groups]

InClass(c, item) ==
    (IF item.ci THEN Lower(c) \in { Lower(x) : x \in item.cls } ELSE c \in item.cls)
        /= item.neg

\* the end (first index not consumed) of the greedy run of item from p on,
\* n characters of it consumed already
RECURSIVE Run(_, _, _, _)
Run(s, p, item, n) ==
    IF p <= Len(s) /\ ~(item.bounded /\ n >= item.max) /\ InClass(s[p], item)
    THEN Run(s, p + 1, item, n + 1)
    ELSE p

\* the ends of the items matched one after the other from p on, <<>> when an
\* item finds fewer characters than its min
RECURSIVE MatchItems(_, _, _, _)
MatchItems(items, s, p, ends) ==
    IF items = <<>> THEN ends
    ELSE LET end == Run(s, p, Head(items), 0) IN
         IF end - p < Head(items).min THEN <<>>
         ELSE MatchItems(Tail(items), s, end, Append(ends, end))

NoMatch == [ok |-> FALSE, end |-> 0, groups |-> <<>>]

Matched(end, groups) == [ok |-> TRUE, end |-> end, groups |-> groups]

\* the text of the group spanning the items from..to of a match at i
GroupText(s, i, ends, from, to) ==
    SubSeq(s, IF from = 1 THEN i ELSE ends[from - 1], ends[to] - 1)

\* the match object for the ends of the items
MatchOf(pattern, s, i, ends) ==
    IF ends = <<>> THEN NoMatch
    ELSE Matched(ends[Len(ends)],
                 [g \in 1..Len(pattern.groups) |->
                    GroupText(s, i, ends, pattern.groups[g][1], pattern.groups[g][2])])

\* pattern.match(s, i)
Match(pattern, s, i) == MatchOf(pattern, s, i, MatchItems(pattern.items, s, i, <<>>))

\* A replacement template is a string whose group references \1..\4 are the
\* elements "\\1".."\\4"; every other element is a literal character.
Expand(template, m) ==
    Flatten([k \in 1..Len(template) |->
        CASE template[k] = "\\1" -> m.groups[1]
          [] template[k] = "\\2" -> m.groups[2]
          [] template[k] = "\\3" -> m.groups[3]
          [] template[k] = "\\4" -> m.groups[4]
          [] OTHER -> <<template[k]>>])

\* re.search: the leftmost match, NoMatch when there is none
RECURSIVE SearchFrom(_, _, _)
SearchFrom(pattern, s, i) ==
    IF i > Len(s) THEN NoMatch
    ELSE LET m == Match(pattern, s, i) IN
         IF m.ok THEN m ELSE SearchFrom(pattern, s, i + 1)

ReSearch(pattern, s) == SearchFrom(pattern, s, 1)

\* re.sub(pattern, template, s, count): leftmost non-overlapping matches (no
\* pattern of the source matches the empty string); count = 0 is "all"
RECURSIVE SubFrom(_, _, _, _, _)
SubFrom(pattern, template, s, i, count) ==
    IF i > Len(s) THEN <<>>
    ELSE LET m == Match(pattern, s, i) IN
         IF m.ok
         THEN Expand(template, m) \o
              (IF count = 1 THEN SubSeq(s, m.end, Len(s))
               ELSE SubFrom(pattern, template, s, m.end,
                            IF count = 0 THEN 0 ELSE count - 1))
         ELSE <<s[i]>> \o SubFrom(pattern, template, s, i + 1, count)

ReSub(pattern, template, s) == SubFrom(pattern, template, s, 1, 0)

ReSubCount(pattern, template, s, count) == SubFrom(pattern, template, s, 1, count)

\* re.findall for a pattern with one group
RECURSIVE FindallFrom(_, _, _)
FindallFrom(pattern, s, i) ==
    IF i > Len(s) THEN <<>>
    ELSE LET m == Match(pattern, s, i) IN
         IF m.ok THEN <<m.groups[1]>> \o FindallFrom(pattern, s, m.end)
         ELSE FindallFrom(pattern, s, i + 1)

ReFindall(pattern, s) == FindallFrom(pattern, s, 1)

(***************************************************************************)
(* Python str helpers.                                                     *)
(***************************************************************************)

\* s.split(sep) for a one-character separator: every piece, empty ones too
RECURSIVE SplitFrom(_, _, _, _)
SplitFrom(s, sep, i, piece) ==
    IF i > Len(s) THEN <<piece>>
    ELSE IF s[i] = sep THEN <<piece>> \o SplitFrom(s, sep, i + 1, <<>>)
    ELSE SplitFrom(s, sep, i + 1, Append(piece, s[i]))

Split(s, sep) == SplitFrom(s, sep, 1, <<>>)

\* s.strip()
RECURSIVE RStrip(_)
RStrip(s) ==
    IF s /= <<>> /\ s[Len(s)] \in SpaceChars THEN RStrip(SubSeq(s, 1, Len(s) - 1))
    ELSE s

RECURSIVE LStrip(_)
LStrip(s) == IF s /= <<>> /\ s[1] \in SpaceChars THEN LStrip(Tail(s)) ELSE s

Strip(s) == RStrip(LStrip(s))

\* sep in s
Contains(s, sep) == \E k \in DOMAIN s : s[k] = sep

\* sorted(list of strings): insertion sort by the lexicographic order of the
\* characters' ranks; the order only has to be total, as in Python
CharRank(c) ==
    LET all == <<" ">> \o DigitChars \o UpperLetters \o <<"_">> \o LowerLetters IN
    Index(all, c)

RECURSIVE StrLess(_, _)
StrLess(a, b) ==
    IF a = <<>> THEN b /= <<>>
    ELSE IF b = <<>> THEN FALSE
    ELSE IF CharRank(Head(a)) /= CharRank(Head(b))
         THEN CharRank(Head(a)) < CharRank(Head(b))
    ELSE StrLess(Tail(a), Tail(b))

RECURSIVE Insert(_, _)
Insert(x, sortedList) ==
    IF sortedList = <<>> THEN <<x>>
    ELSE IF StrLess(Head(sortedList), x)
         THEN <<Head(sortedList)>> \o Insert(x, Tail(sortedList))
    ELSE <<x>> \o sortedList

RECURSIVE Sorted(_)
Sorted(list) == IF list = <<>> THEN <<>> ELSE Insert(Head(list), Sorted(Tail(list)))

(***************************************************************************)
(* The field converters.                                                   *)
(***************************************************************************)

\* the value of a converter that may raise: err is "none" or the exception
Ok(v) == [err |-> "none", val |-> v]

Raise(e) == [err |-> e, val |-> <<>>]

NameConverter_convertToXLS(name) == name

convertFromTypeLookup ==
    ("descriptive" :> <<"note">>) @@ ("notes" :> <<"text">>) @@ ("calc" :> <<"calculate">>)

convertFromTypeWithChoicesLookup ==
    ("radio" :> <<"select_one">>) @@ ("checkbox" :> <<"select_multiple">>)
        @@ ("dropdown" :> <<"select_one">>)

convertFromTypeAndValidationLookup ==
    ("date_dmy" :> <<"date">>) @@ ("time" :> <<"time">>)
        @@ ("number" :> <<"decimal">>) @@ ("integer" :> <<"integer">>)

incrementListNumber == 1

leaveListNumber == 0

makeListName(listNumber) == "list_" \o ToString(listNumber)

convertFromTypeWithChoices(type_, listNumber) ==
    <<convertFromTypeWithChoicesLookup[type_] \o <<makeListName(listNumber)>>,
      incrementListNumber>>

\* a variant of convertToXLS that tries the validation rule before the rules
\* on the field type
TypeConverter_convertToXLS_validationFirst(type_, validation, listNumber) ==
    IF validation \in DOMAIN convertFromTypeAndValidationLookup
    THEN <<convertFromTypeAndValidationLookup[validation], leaveListNumber>>
    ELSE IF type_ = "yesno" THEN <<(<<"select_one", "yes_no">>), leaveListNumber>>
    ELSE IF type_ \in DOMAIN convertFromTypeLookup
         THEN <<convertFromTypeLookup[type_], leaveListNumber>>
    ELSE IF type_ \in DOMAIN convertFromTypeWithChoicesLookup
         THEN convertFromTypeWithChoices(type_, listNumber)
    ELSE <<(<<"text">>), leaveListNumber>>

\* TypeConverter(type_, validation).convertToXLS(listNumber): (type, increment)
TypeConverter_convertToXLS(type_, validation, listNumber) ==
    IF type_ = "yesno" THEN <<(<<"select_one", "yes_no">>), leaveListNumber>>
    ELSE IF type_ \in DOMAIN convertFromTypeLookup
         THEN <<convertFromTypeLookup[type_], leaveListNumber>>
    ELSE IF type_ \in DOMAIN convertFromTypeWithChoicesLookup
         THEN convertFromTypeWithChoices(type_, listNumber)
    ELSE IF validation \in DOMAIN convertFromTypeAndValidationLookup
         THEN <<convertFromTypeAndValidationLookup[validation], leaveListNumber>>
    ELSE <<(<<"text">>), leaveListNumber>>

\* html2text.html2text(label): the library's rendering, left uninterpreted
Html2Text(label) == <<"h","t","m","l","2","t","e","x","t","(">> \o label \o <<")">>

LabelConverter_convertToXLS(label, name) ==
    IF label /= <<>> THEN Html2Text(label) ELSE name

greaterThanStr(min_) == <<"(", ".", " ", ">", "=", " ">> \o min_ \o <<")">>

lessThanStr(max_) == <<"(", ".", " ", "<", "=", " ">> \o max_ \o <<")">>

addConstraint(givenConstraints, currentConstraint) ==
    IF givenConstraints /= <<>>
    THEN givenConstraints \o <<" ", "a", "n", "d", " ">> \o currentConstraint
    ELSE currentConstraint

\* a variant of convertToXLS that adds the upper bound before the lower one
ConstraintConverter_convertToXLS_upperFirst(min_, max_) ==
    LET upper == IF max_ /= <<>> THEN addConstraint(<<>>, lessThanStr(max_)) ELSE <<>>
    IN IF min_ /= <<>> THEN addConstraint(upper, greaterThanStr(min_)) ELSE upper

ConstraintConverter_convertToXLS(min_, max_) ==
    LET lower == IF min_ /= <<>> THEN addConstraint(<<>>, greaterThanStr(min_)) ELSE <<>>
    IN IF max_ /= <<>> THEN addConstraint(lower, lessThanStr(max_)) ELSE lower

RequiredConverter_convertToXLS(required) ==
    IF required = <<"y">> THEN <<"y", "e", "s">> ELSE <<"n", "o">>

HintsConverter_convertToXLS(hint) == hint

(***************************************************************************)
(* The expression translators.                                             *)
(***************************************************************************)

\* RelevantConverter.singleVariableRegex:
\*   \[(\w+)\]\s*([!<>=]{,2})\s*([\'\"]?)(\w*)[\'\"]?
RelevantConverter_singleVariableRegex ==
    Pattern(Literal(<<"[">>, FALSE) \o <<Plus(WordChars)>> \o Literal(<<"]">>, FALSE)
                \o <<Star(SpaceChars), AtMost({"!", "<", ">", "="}, 2), Star(SpaceChars),
                     Opt(QuoteChars), Star(WordChars), Opt(QuoteChars)>>,
            <<(<<2, 2>>), (<<5, 5>>), (<<7, 7>>), (<<8, 8>>)>>)

\* a substitute that drops the quotes around the value: ${\1} \2 \4
RelevantConverter_singleVariableSubstituteRegex_noQuotes ==
    <<"$", "{", "\\1", "}", " ", "\\2", " ", "\\4">>

\* RelevantConverter.singleVariableSubstituteRegex: ${\1} \2 \3\4\3
RelevantConverter_singleVariableSubstituteRegex ==
    <<"$", "{", "\\1", "}", " ", "\\2", " ", "\\3", "\\4", "\\3">>

\* RelevantConverter.arrayRegex:
\*   \[(\w+)\((\w+)\)\]\s*([!=]{,2})\s*[\'\"]?(\w*)[\'\"]?
RelevantConverter_arrayRegex ==
    Pattern(Literal(<<"[">>, FALSE) \o <<Plus(WordChars)>> \o Literal(<<"(">>, FALSE)
                \o <<Plus(WordChars)>> \o Literal(<<")", "]">>, FALSE)
                \o <<Star(SpaceChars), AtMost({"!", "="}, 2), Star(SpaceChars),
                     Opt(QuoteChars), Star(WordChars), Opt(QuoteChars)>>,
            <<(<<2, 2>>), (<<4, 4>>), (<<8, 8>>), (<<11, 11>>)>>)

\* RelevantConverter.arraySubstitute.format(array, item): selected('{}','{}')
arraySubstitute(array, item) ==
    <<"s","e","l","e","c","t","e","d","(","'">> \o array \o <<"'", ",", "'">>
        \o item \o <<"'", ")">>

\* convertArrays, line 218: is the match wrapped in not(...)?  value is the
\* last character of group 4
arrayNegated(operator, value) ==
    \/ operator = <<"=">> /\ value = "0"
    \/ operator = <<"!", "=">> /\ value = "1"

\* convertArrays, lines 213-219: the substitute of one match
arraySubstituteOf(match) ==
    IF arrayNegated(match.groups[3], match.groups[4][Len(match.groups[4])])
    THEN <<"n", "o", "t", "(">> \o arraySubstitute(match.groups[1], match.groups[2])
            \o <<")">>
    ELSE arraySubstitute(match.groups[1], match.groups[2])

\* RelevantConverter.convertArrays(text): one match rewritten per turn of the
\* loop; match.group(4)[-1] raises IndexError on an empty group 4
RECURSIVE convertArrays(_)
convertArrays(text) ==
    LET match == ReSearch(RelevantConverter_arrayRegex, text) IN
    IF ~match.ok THEN Ok(text)
    ELSE IF match.groups[4] = <<>> THEN Raise("IndexError")
    ELSE convertArrays(ReSubCount(RelevantConverter_arrayRegex,
                                  arraySubstituteOf(match), text, 1))

\* RelevantConverter.convertToXLS, lines 191-193
singleVariablesConverted(expression) ==
    ReSub(RelevantConverter_singleVariableRegex,
          RelevantConverter_singleVariableSubstituteRegex, expression)

\* RelevantConverter.convertToXLS, line 195: the text, or the exception
arraysConverted(expression) == convertArrays(singleVariablesConverted(expression))

\* RelevantConverter.convertToXLS, lines 197-199
differentConverted(expression) ==
    ReSub(Pattern(Literal(<<"<", ">">>, FALSE), <<>>), <<"!", "=">>,
          arraysConverted(expression).val)

\* RelevantConverter.convertToXLS, lines 200-202
orConverted(expression) ==
    ReSub(Pattern(Literal(<<"o", "r">>, TRUE), <<>>), <<"o", "r">>,
          differentConverted(expression))

\* RelevantConverter.convertToXLS, lines 203-205
andConverted(expression) ==
    ReSub(Pattern(Literal(<<"a", "n", "d">>, TRUE), <<>>), <<"a", "n", "d">>,
          orConverted(expression))

\* RelevantConverter(expression).convertToXLS(): the text, or the exception
RelevantConverter_convertToXLS(expression) ==
    IF arraysConverted(expression).err /= "none"
    THEN Raise(arraysConverted(expression).err)
    ELSE Ok(andConverted(expression))

\* CalculationsConverter.singleVariableRegex: \[(\w+)\]
CalculationsConverter_singleVariableRegex ==
    Pattern(Literal(<<"[">>, FALSE) \o <<Plus(WordChars)>> \o Literal(<<"]">>, FALSE),
            <<(<<2, 2>>)>>)

\* CalculationsConverter.singleVariableSubstituteRegex: ${\1}
CalculationsConverter_singleVariableSubstituteRegex == <<"$", "{", "\\1", "}">>

\* CalculationsConverter.arrayRegex: \[(\w+)\((\w+)\)\]
CalculationsConverter_arrayRegex ==
    Pattern(Literal(<<"[">>, FALSE) \o <<Plus(WordChars)>> \o Literal(<<"(">>, FALSE)
                \o <<Plus(WordChars)>> \o Literal(<<")", "]">>, FALSE),
            <<(<<2, 2>>), (<<4, 4>>)>>)

\* CalculationsConverter.arraySubstituteRegex: selected(${\1},'\2')
CalculationsConverter_arraySubstituteRegex ==
    <<"s","e","l","e","c","t","e","d","(","$","{","\\1","}",",","'","\\2","'",")">>

\* CalculationsConverter(type_, expression).convertToXLS()
CalculationsConverter_convertToXLS(type_, expression) ==
    IF type_ = <<"calculate">>
    THEN ReSub(CalculationsConverter_arrayRegex,
               CalculationsConverter_arraySubstituteRegex,
               ReSub(CalculationsConverter_singleVariableRegex,
                     CalculationsConverter_singleVariableSubstituteRegex, expression))
    ELSE <<>>

\* DeafultsConverter.defaultsRegex:
\*   (?i)@default\s*=\s*[\'\"]?([^\'\"]*)[\'\"]?
defaultsRegex ==
    Pattern(Literal(<<"@","d","e","f","a","u","l","t">>, TRUE)
                \o <<Star(SpaceChars)>> \o Literal(<<"=">>, TRUE)
                \o <<Star(SpaceChars), Opt(QuoteChars), StarNot(QuoteChars),
                     Opt(QuoteChars)>>,
            <<(<<13, 13>>)>>)

\* DeafultsConverter(annotation).convertToXLS()
DeafultsConverter_convertToXLS(annotation) ==
    IF ReSearch(defaultsRegex, annotation).ok
    THEN ReSearch(defaultsRegex, annotation).groups[1]
    ELSE <<>>

\* ReadOnlyConverter.readOnlyRegex: (?i)@hidden
readOnlyRegex == Pattern(Literal(<<"@","h","i","d","d","e","n">>, TRUE), <<>>)

\* ReadOnlyConverter(annotation).convertToXLS()
ReadOnlyConverter_convertToXLS(annotation) ==
    IF ReSearch(readOnlyRegex, annotation).ok THEN <<"y", "e", "s">> ELSE <<>>

(***************************************************************************)
(* The choices converter.                                                  *)
(***************************************************************************)

\* listName of a choice of a field whose type names no list (Python's None)
None == "None"

XLSChoice(listName, name, label) ==
    [listName |-> listName, name |-> name, label |-> label]

\* ChoicesConverter._separateChoices
separateChoices(choices) == IF choices /= <<>> THEN Split(choices, "|") ELSE <<>>

\* ChoicesConverter._extractListName: type_.split(' ')
extractListName(type_) == IF Len(type_) = 2 THEN type_[2] ELSE None

\* _splitChoice, lines 289-291: name and label of the pieces of a choice
nameAndLabel(splittedChoice) ==
    Ok(<<Strip(splittedChoice[1]), Strip(splittedChoice[2])>>)

\* ChoicesConverter._splitChoice: (name, label), or the exception raised
splitChoice(choice) ==
    IF Contains(choice, ",") THEN nameAndLabel(Split(choice, ","))
    ELSE IF Contains(choice, ":") THEN nameAndLabel(Split(choice, ":"))
    ELSE Raise("Exception")

\* ChoicesConverter(type_, choices).convertToXLS(): the XLSChoice list, or
\* the exception of the first choice that cannot be read
ChoicesConverter_convertToXLS(type_, choices) ==
    IF type_ /= <<"calculate">>
    THEN IF \E k \in 1..Len(separateChoices(choices)) :
                splitChoice(separateChoices(choices)[k]).err /= "none"
         THEN Raise("Exception")
         ELSE Ok([k \in 1..Len(separateChoices(choices)) |->
                    XLSChoice(extractListName(type_),
                              splitChoice(separateChoices(choices)[k]).val[1],
                              splitChoice(separateChoices(choices)[k]).val[2])])
    ELSE Ok(<<>>)

(***************************************************************************)
(* Headers and rows.  A row is the list of its cells, positioned by the    *)
(* input headers; a blank line of the CSV file is the empty row <<>>.      *)
(***************************************************************************)

\* the header row of a REDCap data dictionary
RedcapHeaders ==
    << "Variable / Field Name", "Form Name", "Section Header", "Field Type",
       "Field Label", "Choices, Calculations, OR Slider Labels", "Field Note",
       "Text Validation Type OR Show Slider Number", "Text Validation Min",
       "Text Validation Max", "Identifier?",
       "Branching Logic (Show field only if...)", "Required Field?",
       "Field Annotation" >>

\* the cells the source only compares with fixed words
AtomicHeaders == {"Field Type", "Text Validation Type OR Show Slider Number"}

RedcapContent(name, headers, questions) ==
    [name |-> name, headers |-> headers, questions |-> questions]

XLSContent(name, headers, questions, choices) ==
    [name |-> name, headers |-> headers, questions |-> questions, choices |-> choices]

headersConversionLookup ==
    ("Variable / Field Name" :> "name") @@ ("Field Type" :> "type")
        @@ ("Field Label" :> "label") @@ ("Text Validation Min" :> "constraint")
        @@ ("Branching Logic (Show field only if...)" :> "relevant")
        @@ ("Required Field?" :> "required") @@ ("Field Note" :> "hint")

defaultHeaders == <<"calculation", "default", "read_only">>

defaultChoices ==
    << XLSChoice("yes_no", <<"y", "e", "s">>, <<"Y", "e", "s">>),
       XLSChoice("yes_no", <<"n", "o">>, <<"N", "o">>) >>

\* Converter._convertHeaders
RECURSIVE convertRecognized(_)
convertRecognized(redcapHeaders) ==
    IF redcapHeaders = <<>> THEN <<>>
    ELSE (IF Head(redcapHeaders) \in DOMAIN headersConversionLookup
          THEN <<headersConversionLookup[Head(redcapHeaders)]>>
          ELSE <<>>) \o convertRecognized(Tail(redcapHeaders))

\* a variant of _convertHeaders that lists the recognized columns in the
\* order of headersConversionLookup
convertHeaders_lookupOrder(redcapHeaders, columns) ==
    SelectSeq(<<"name", "type", "label", "constraint", "relevant", "required", "hint">>,
              LAMBDA x : \E k \in 1..Len(redcapHeaders) :
                            /\ redcapHeaders[k] \in DOMAIN headersConversionLookup
                            /\ headersConversionLookup[redcapHeaders[k]] = x)
        \o defaultHeaders \o columns

convertHeaders(redcapHeaders, columns) ==
    convertRecognized(redcapHeaders) \o defaultHeaders \o columns

\* RowConverter._processHeaders: the dict keeps the last index of a header
HeaderIndex(headers, header) ==
    IF \E k \in DOMAIN headers : headers[k] = header
    THEN CHOOSE k \in DOMAIN headers :
            headers[k] = header /\ \A j \in DOMAIN headers : headers[j] = header => j <= k
    ELSE 0

\* RowConverter._getRedcapVal: the cell under a header, '' in a short row
getRedcapVal(row, redcapHeaders, header) ==
    IF HeaderIndex(redcapHeaders, header) <= Len(row)
    THEN row[HeaderIndex(redcapHeaders, header)]
    ELSE IF header \in AtomicHeaders THEN "" ELSE <<>>

\* RowConverter._setXLSVal
setXLSVal(convertedRow, xlsHeaders, header, value) ==
    [convertedRow EXCEPT ![HeaderIndex(xlsHeaders, header)] = value]

\* RowConverter._hasXLSHeader, around one _convertX call
setIfHasHeader(convertedRow, xlsHeaders, header, value) ==
    IF Index(xlsHeaders, header) /= 0
    THEN setXLSVal(convertedRow, xlsHeaders, header, value)
    ELSE convertedRow

\* RowConverter._convertAdditional
RECURSIVE convertAdditional(_, _, _, _, _)
convertAdditional(convertedRow, xlsHeaders, row, redcapHeaders, columns) ==
    IF columns = <<>> THEN convertedRow
    ELSE convertAdditional(
            setXLSVal(convertedRow, xlsHeaders, Head(columns),
                      getRedcapVal(row, redcapHeaders, Head(columns))),
            xlsHeaders, row, redcapHeaders, Tail(columns))

\* RowConverter._isEmpty
isEmpty(name) == NameConverter_convertToXLS(name) = <<>>

\* RowConverter._convertType: (convertedType, listIncrement).  The input
\* header row holds 'Field Type', so that the type is always converted.
convertType(row, redcapHeaders, listNumber) ==
    TypeConverter_convertToXLS(
        getRedcapVal(row, redcapHeaders, "Field Type"),
        getRedcapVal(row, redcapHeaders, "Text Validation Type OR Show Slider Number"),
        listNumber)

\* RowConverter._convertRelevant, under its _hasXLSHeader test
convertRelevant(row, redcapHeaders, xlsHeaders) ==
    IF Index(xlsHeaders, "relevant") /= 0
    THEN RelevantConverter_convertToXLS(
            getRedcapVal(row, redcapHeaders, "Branching Logic (Show field only if...)"))
    ELSE Ok(<<>>)

\* RowConverter._convertChoices
convertChoices(row, redcapHeaders, listNumber) ==
    ChoicesConverter_convertToXLS(
        convertType(row, redcapHeaders, listNumber)[1],
        getRedcapVal(row, redcapHeaders, "Choices, Calculations, OR Slider Labels"))

\* RowConverter.convertToXLS, lines 613-638: self.convertedRow of a row with
\* a name, every converter having returned
convertedRowOf(row, redcapHeaders, xlsHeaders, listNumber, columns) ==
    convertAdditional(
      setXLSVal(
        setXLSVal(
          setXLSVal(
            setIfHasHeader(
              setIfHasHeader(
                setIfHasHeader(
                  setIfHasHeader(
                    setIfHasHeader(
                      setIfHasHeader(
                        setIfHasHeader(
                          [k \in 1..Len(xlsHeaders) |-> <<>>],
                          xlsHeaders, "name",
                          NameConverter_convertToXLS(
                            getRedcapVal(row, redcapHeaders, "Variable / Field Name"))),
                        xlsHeaders, "type",
                        convertType(row, redcapHeaders, listNumber)[1]),
                      xlsHeaders, "label",
                      LabelConverter_convertToXLS(
                        getRedcapVal(row, redcapHeaders, "Field Label"),
                        getRedcapVal(row, redcapHeaders, "Variable / Field Name"))),
                    xlsHeaders, "constraint",
                    ConstraintConverter_convertToXLS(
                      getRedcapVal(row, redcapHeaders, "Text Validation Min"),
                      getRedcapVal(row, redcapHeaders, "Text Validation Max"))),
                  xlsHeaders, "relevant",
                  convertRelevant(row, redcapHeaders, xlsHeaders).val),
                xlsHeaders, "required",
                RequiredConverter_convertToXLS(
                  getRedcapVal(row, redcapHeaders, "Required Field?"))),
              xlsHeaders, "hint",
              HintsConverter_convertToXLS(getRedcapVal(row, redcapHeaders, "Field Note"))),
            xlsHeaders, "calculation",
            CalculationsConverter_convertToXLS(
              convertType(row, redcapHeaders, listNumber)[1],
              getRedcapVal(row, redcapHeaders, "Choices, Calculations, OR Slider Labels"))),
          xlsHeaders, "default",
          DeafultsConverter_convertToXLS(
            getRedcapVal(row, redcapHeaders, "Field Annotation"))),
        xlsHeaders, "read_only",
        ReadOnlyConverter_convertToXLS(
          getRedcapVal(row, redcapHeaders, "Field Annotation"))),
      xlsHeaders, row, redcapHeaders, columns)

\* what convertToXLS returns when a converter raises e
RowRaise(e) ==
    [err |-> e, convertedRow |-> <<>>, convertedChoices |-> <<>>, listIncrement |-> 0]

\* RowConverter(row, ...).convertToXLS(): (convertedRow, convertedChoices,
\* listIncrement), or the exception of the first converter that raises: the
\* relevant is converted before the choices
RowConverter_convertToXLS(row, redcapHeaders, xlsHeaders, listNumber, columns) ==
    IF isEmpty(getRedcapVal(row, redcapHeaders, "Variable / Field Name"))
    THEN [err |-> "none", convertedRow |-> <<>>, convertedChoices |-> <<>>,
          listIncrement |-> 0]
    ELSE IF convertRelevant(row, redcapHeaders, xlsHeaders).err /= "none"
    THEN RowRaise(convertRelevant(row, redcapHeaders, xlsHeaders).err)
    ELSE IF convertChoices(row, redcapHeaders, listNumber).err /= "none"
    THEN RowRaise(convertChoices(row, redcapHeaders, listNumber).err)
    ELSE [err |-> "none",
          convertedRow |->
            convertedRowOf(row, redcapHeaders, xlsHeaders, listNumber, columns),
          convertedChoices |-> convertChoices(row, redcapHeaders, listNumber).val,
          listIncrement |-> convertType(row, redcapHeaders, listNumber)[2]]

(***************************************************************************)
(* The form assembler: Converter.                                          *)
(***************************************************************************)

\* Converter._checkColumnsToCopyExistInHeaders: TRUE when it raises
columnToCopyMissing(columns, fileContent_) ==
    \E k \in 1..Len(columns) : Index(fileContent_.headers, columns[k]) = 0

\* _extractVariables, line 486: \[(\w+)\]
extractVariables_singleVariableRegex ==
    Pattern(Literal(<<"[">>, FALSE) \o <<Plus(WordChars)>> \o Literal(<<"]">>, FALSE),
            <<(<<2, 2>>)>>)

\* _extractVariables, line 487: \[(\w+)\(\w+\)\]
extractVariables_arrayRegex ==
    Pattern(Literal(<<"[">>, FALSE) \o <<Plus(WordChars)>> \o Literal(<<"(">>, FALSE)
                \o <<Plus(WordChars)>> \o Literal(<<")", "]">>, FALSE),
            <<(<<2, 2>>)>>)

\* Converter._extractVariables
extractVariables(expression) ==
    ReFindall(extractVariables_singleVariableRegex, expression)
        \o ReFindall(extractVariables_arrayRegex, expression)

\* a variant of the test of line 460 that leaves out formName != ''
startsNewForm_emptyToo(formName, currentName) == formName /= currentName

\* _separateForms, line 460: does this row open a new form?
startsNewForm(formName, currentName) ==
    formName /= currentName /\ formName /= <<>>

\* a variant of lines 466-468 that reads the calculation cell of every row
referredVariables_anyType(branch, type_, calc) ==
    extractVariables(branch) \o extractVariables(calc)

\* _separateForms, lines 466-468: the variables a row refers to
referredVariables(branch, type_, calc) ==
    extractVariables(branch) \o
        (IF type_ = "calc" THEN extractVariables(calc) ELSE <<>>)

\* Converter._separateForms, the loop from row i on
RECURSIVE separateFrom(_, _, _, _, _, _)
separateFrom(fileContent_, i, forms_, currentName, currentForm_, currentVariables) ==
    LET headers == fileContent_.headers
        questions == fileContent_.questions
        accept(row, new, variables) ==
            IF \E k \in 1..Len(variables) :
                    variables[k] \notin (IF new THEN {} ELSE currentVariables)
            THEN Raise("CrossFormsReferenceException")
            ELSE separateFrom(
                    fileContent_, i + 1,
                    IF new
                    THEN Append(forms_, RedcapContent(currentName, headers, currentForm_))
                    ELSE forms_,
                    IF new THEN row[Index(headers, "Form Name")] ELSE currentName,
                    Append(IF new THEN <<>> ELSE currentForm_, row),
                    (IF new THEN {} ELSE currentVariables)
                        \cup {row[Index(headers, "Variable / Field Name")]})
        visit(row) ==
            IF row = <<>>
            THEN separateFrom(fileContent_, i + 1, forms_, currentName, currentForm_,
                              currentVariables)
            ELSE accept(row,
                        startsNewForm(row[Index(headers, "Form Name")], currentName),
                        referredVariables(
                            row[Index(headers, "Branching Logic (Show field only if...)")],
                            row[Index(headers, "Field Type")],
                            row[Index(headers, "Choices, Calculations, OR Slider Labels")]))
    IN IF i > Len(questions)
       THEN Ok(Append(forms_, RedcapContent(currentName, headers, currentForm_)))
       ELSE visit(questions[i])

\* Converter._separateForms; questions[0][formNameIndex] needs a first row
separateForms(fileContent_) ==
    IF fileContent_.questions = <<>> \/ fileContent_.questions[1] = <<>>
    THEN Raise("IndexError")
    ELSE separateFrom(fileContent_, 1, <<>>,
                      fileContent_.questions[1][Index(fileContent_.headers, "Form Name")],
                      <<>>, {})

\* a variant of __init__ that looks at the copy columns after the forms are
\* separated
Converter_init_checkLast(fileContent_, mode_, columns) ==
    IF mode_ = "zip_xls" /\ separateForms(fileContent_).err /= "none"
    THEN separateForms(fileContent_)
    ELSE IF columnToCopyMissing(columns, fileContent_)
    THEN Raise("ColumnToCopyDoesNotExistException")
    ELSE IF mode_ = "zip_xls" THEN separateForms(fileContent_)
    ELSE Ok(<<fileContent_>>)

\* Converter.__init__: self.forms, or the exception raised
Converter_init(fileContent_, mode_, columns) ==
    IF columnToCopyMissing(columns, fileContent_)
    THEN Raise("ColumnToCopyDoesNotExistException")
    ELSE IF mode_ = "zip_xls" THEN separateForms(fileContent_)
    ELSE Ok(<<fileContent_>>)

BeginGroupType == <<"begin", "group">>

EndGroupType == <<"end", "group">>

\* Converter._beginGroup
beginGroup(headers, prevGroups_, label) ==
    [[k \in 1..Len(headers) |-> <<>>] EXCEPT
        ![Index(headers, "name")] = <<"g", "r", "o", "u", "p", "_">> \o Str(prevGroups_ + 1),
        ![Index(headers, "label")] = label,
        ![Index(headers, "type")] = BeginGroupType]

\* Converter._endGroup
endGroup(headers) ==
    [[k \in 1..Len(headers) |-> <<>>] EXCEPT ![Index(headers, "type")] = EndGroupType]

\* a variant of lines 519-523 that never closes the open group
sectionRows_noEnd(headers, prevGroups_, section) ==
    IF section /= <<>> THEN <<beginGroup(headers, prevGroups_, section)>> ELSE <<>>

\* _convertContent, lines 519-523: the group rows a section header emits
sectionRows(headers, prevGroups_, section) ==
    IF section /= <<>>
    THEN (IF prevGroups_ > 0 THEN <<endGroup(headers)>> ELSE <<>>)
            \o <<beginGroup(headers, prevGroups_, section)>>
    ELSE <<>>

(***************************************************************************)
(* The state of one run of the program (the __main__ block): the input,    *)
(* the Converter being built and driven, the locals of _convertContent,    *)
(* and the files written.  call and ret hold one call of a converter on    *)
(* its own, for the specifications of the single converters.               *)
(***************************************************************************)
VARIABLES
    fileContent,        \* readRedcapFile(filename): headers and questions
    mode,               \* 'zip_xls' or 'single_xls'
    columnsToCopy,      \* the -c/--copycolumn names
    pc,                 \* where the run is
    error,              \* the exception that ended the run, or "none"
    forms,              \* Converter.forms
    formIndex,          \* convert(): the form of self.forms being converted
    rowIndex,           \* _convertContent: the row being converted
    convertedQuestions, \* _convertContent: the survey rows so far
    convertedChoices,   \* _convertContent: the choices so far
    listNumber,         \* _convertContent: the list number last used
    listNumbermax,      \* _convertContent: the next free list number
    choiceSets,         \* _convertContent: the sorted name sets seen
    prevGroups,         \* _convertContent: the groups opened
    converted,          \* convert(): the XLSContent of the forms done
    written,            \* XLSWriter.write: the documents written
    call,               \* a converter called on its own: its arguments
    ret                 \* its result, not done before it returns

vars == <<fileContent, mode, columnsToCopy, pc, error, forms, formIndex, rowIndex,
          convertedQuestions, convertedChoices, listNumber, listNumbermax,
          choiceSets, prevGroups, converted, written, call, ret>>

runVars == <<fileContent, mode, columnsToCopy, pc, error, forms, formIndex, rowIndex,
             convertedQuestions, convertedChoices, listNumber, listNumbermax,
             choiceSets, prevGroups, converted, written>>

contentVars == <<convertedQuestions, convertedChoices, listNumber, listNumbermax,
                 choiceSets, prevGroups>>

\* the headers of the survey sheet of this run
convertedHeaders == convertHeaders(fileContent.headers, columnsToCopy)

\* the form _convertContent is working on
currentForm == forms[formIndex]

(***************************************************************************)
(* The inputs.  The rows are drawn from three families, each varying the   *)
(* cells one part of the assembler reads: form names and references (the   *)
(* splitting), field names and section headers (the groups), field types   *)
(* and choices (the lists).                                                *)
(***************************************************************************)
MaxFormRows == 2

MaxGroupRows == 3

MaxListRows == 3

Row(name, form, section, type_, choices, branch) ==
    <<name, form, section, type_, <<"L">>, choices, <<>>, "", <<>>, <<>>, <<>>,
      branch, <<>>, <<>>>>

\* a and b with no reference; b and a whose branching logic reads [a]; a calc
\* field a computed from [b(1)]; a radio b with [a] piped into a choice label
FormKinds ==
    { [name |-> <<"a">>, type_ |-> "text", choices |-> <<>>, branch |-> <<>>],
      [name |-> <<"b">>, type_ |-> "text", choices |-> <<>>, branch |-> <<>>],
      [name |-> <<"b">>, type_ |-> "text", choices |-> <<>>,
       branch |-> <<"[", "a", "]", " ", "=", " ", "1">>],
      [name |-> <<"a">>, type_ |-> "text", choices |-> <<>>,
       branch |-> <<"[", "a", "]", " ", "=", " ", "1">>],
      [name |-> <<"a">>, type_ |-> "calc",
       choices |-> <<"[", "b", "(", "1", ")", "]", "+", "1">>, branch |-> <<>>],
      [name |-> <<"b">>, type_ |-> "radio",
       choices |-> <<"1", ",", "[", "a", "]">>, branch |-> <<>>] }

\* rows of the forms A and B of every kind; rows with no form name, a and b
\* with and without a reference; a blank line
FormRows ==
    { Row(k.name, f, <<>>, k.type_, k.choices, k.branch) :
        f \in {<<"A">>, <<"B">>}, k \in FormKinds }
    \cup { Row(<<"a">>, <<>>, <<>>, "text", <<>>, <<>>),
           Row(<<"b">>, <<>>, <<>>, "text", <<>>, <<"[", "a", "]", " ", "=", " ", "1">>) }
    \cup {<<>>}

\* rows of form A with the section header S, T or none, and rows with no
\* field name; a row of form B opening a section; a blank line
GroupRows ==
    { Row(<<"a">>, <<"A">>, s, "text", <<>>, <<>>) : s \in {<<>>, <<"S">>, <<"T">>} }
    \cup { Row(<<>>, <<"A">>, s, "text", <<>>, <<>>) : s \in {<<>>, <<"S">>} }
    \cup { Row(<<"a">>, <<"B">>, <<"S">>, "text", <<>>, <<>>) }
    \cup {<<>>}

\* radio 1,x|2,y; checkbox 2,y|1,x; dropdown 3,z; an sql field, whose cell is
\* a query with a comma; a radio with no choices
ListKinds ==
    { [type_ |-> "radio", choices |-> <<"1", ",", "x", "|", "2", ",", "y">>],
      [type_ |-> "checkbox", choices |-> <<"2", ",", "y", "|", "1", ",", "x">>],
      [type_ |-> "dropdown", choices |-> <<"3", ",", "z">>],
      [type_ |-> "sql", choices |-> <<"s", ",", "q">>],
      [type_ |-> "radio", choices |-> <<>>] }

ListRows ==
    { Row(<<"a">>, f, <<>>, k.type_, k.choices, <<>>) :
        f \in {<<"A">>, <<"B">>}, k \in ListKinds }

\* the tables of up to n rows of a family; a file may hold its header row only
Tables(rows, n) == UNION { [1..k -> rows] : k \in 0..n }

Modes == {"zip_xls", "single_xls"}

NoCall == [converter |-> "none"]

NoReturn == [done |-> FALSE]

\* the state when the __main__ block has read its arguments and the file
RunInit(tables, copyChoices) ==
    /\ \E q \in tables : fileContent = RedcapContent(<<>>, RedcapHeaders, q)
    /\ mode \in Modes
    /\ columnsToCopy \in copyChoices
    /\ pc = "start"
    /\ error = "none"
    /\ forms = <<>>
    /\ formIndex = 1
    /\ rowIndex = 1
    /\ convertedQuestions = <<>>
    /\ convertedChoices = <<>>
    /\ listNumber = 0
    /\ listNumbermax = 0
    /\ choiceSets = <<>>
    /\ prevGroups = 0
    /\ converted = <<>>
    /\ written = <<>>
    /\ call = NoCall
    /\ ret = NoReturn

\* the copy column is none, or one the input does not have
InitForms == RunInit(Tables(FormRows, MaxFormRows), { <<>>, <<"Site">> })

InitGroups == RunInit(Tables(GroupRows, MaxGroupRows), { <<>> })

\* the copy column is none, or one of the input
InitLists == RunInit(Tables(ListRows, MaxListRows), { <<>>, <<"Identifier?">> })

\* the locals of _convertContent
contentLocals ==
    [err |-> "none",
     convertedQuestions |-> convertedQuestions,
     convertedChoices |-> convertedChoices,
     listNumber |-> listNumber,
     listNumbermax |-> listNumbermax,
     choiceSets |-> choiceSets,
     prevGroups |-> prevGroups]

\* _convertContent, line 531
namesFromSet(choices) == Sorted([k \in 1..Len(choices) |-> choices[k].name])

\* _convertContent, lines 530-536: the list number of the second conversion
secondListNumber(locals, choices) ==
    IF Len(choices) > 0
    THEN IF Index(locals.choiceSets, namesFromSet(choices)) = 0
         THEN locals.listNumbermax
         ELSE Index(locals.choiceSets, namesFromSet(choices)) - 1
    ELSE locals.listNumber

\* _convertContent, lines 519-549: the locals after the loop body, from the
\* two results of convertToXLS
contentAppend(locals, groups, first, second) ==
    [err |-> "none",
     prevGroups |-> locals.prevGroups + (IF groups /= <<>> THEN 1 ELSE 0),
     listNumber |-> secondListNumber(locals, first.convertedChoices),
     listNumbermax |->
        IF /\ Len(first.convertedChoices) > 0
           /\ Index(locals.choiceSets, namesFromSet(first.convertedChoices)) = 0
        THEN locals.listNumbermax + first.listIncrement
        ELSE locals.listNumbermax,
     convertedQuestions |->
        locals.convertedQuestions \o groups \o
            (IF second.convertedRow /= <<>> THEN <<second.convertedRow>> ELSE <<>>),
     choiceSets |->
        IF /\ Len(second.convertedChoices) > 0
           /\ Index(locals.choiceSets, namesFromSet(first.convertedChoices)) = 0
        THEN Append(locals.choiceSets, namesFromSet(first.convertedChoices))
        ELSE locals.choiceSets,
     convertedChoices |->
        IF /\ Len(second.convertedChoices) > 0
           /\ Index(locals.choiceSets, namesFromSet(first.convertedChoices)) = 0
        THEN locals.convertedChoices \o second.convertedChoices
        ELSE locals.convertedChoices]

\* _convertContent, lines 525-541, after the first convertToXLS has returned
contentConverted(row, redcapHeaders, xlsHeaders, columns, locals, first) ==
    IF first.err /= "none" THEN [locals EXCEPT !.err = first.err]
    ELSE contentAppend(
            locals,
            sectionRows(xlsHeaders, locals.prevGroups,
                        row[Index(redcapHeaders, "Section Header")]),
            first,
            RowConverter_convertToXLS(
                row, redcapHeaders, xlsHeaders,
                secondListNumber(locals, first.convertedChoices), columns))

\* _convertContent, lines 515-549: the locals after the loop body has run on
\* one row; a raise leaves them as they were and is recorded in err
contentStep(row, redcapHeaders, xlsHeaders, columns, locals) ==
    IF row = <<>> THEN locals
    ELSE contentConverted(
            row, redcapHeaders, xlsHeaders, columns, locals,
            RowConverter_convertToXLS(row, redcapHeaders, xlsHeaders,
                                      locals.listNumber, columns))

(***************************************************************************)
(* The run: Converter(fileContent, mode, columnsToCopy).convert(), then    *)
(* XLSWriter(savefile, mode).write(convertedContent).                      *)
(***************************************************************************)

\* Converter.__init__
ConverterInit ==
    /\ pc = "start"
    /\ \E made \in { Converter_init(fileContent, mode, columnsToCopy) } :
        /\ error' = made.err
        /\ forms' = made.val
        /\ pc' = IF made.err = "none" THEN "convert" ELSE "failed"
    /\ UNCHANGED <<fileContent, mode, columnsToCopy, formIndex, rowIndex,
                   contentVars, converted, written, call, ret>>

\* convert(): the next form; _convertContent, lines 507-513
BeginContent ==
    /\ pc = "convert"
    /\ formIndex <= Len(forms)
    /\ convertedQuestions' = <<>>
    /\ convertedChoices' = defaultChoices
    /\ listNumber' = 0
    /\ listNumbermax' = 0
    /\ choiceSets' = <<>>
    /\ prevGroups' = 0
    /\ rowIndex' = 1
    /\ pc' = "content"
    /\ UNCHANGED <<fileContent, mode, columnsToCopy, error, forms, formIndex,
                   converted, written, call, ret>>

\* _convertContent, lines 515-549: one turn of the loop over the rows
ConvertRow ==
    /\ pc = "content"
    /\ rowIndex <= Len(currentForm.questions)
    /\ \E step \in { contentStep(currentForm.questions[rowIndex], currentForm.headers,
                                 convertedHeaders, columnsToCopy, contentLocals) } :
        /\ error' = step.err
        /\ pc' = IF step.err = "none" THEN pc ELSE "failed"
        /\ rowIndex' = IF step.err = "none" THEN rowIndex + 1 ELSE rowIndex
        /\ convertedQuestions' = step.convertedQuestions
        /\ convertedChoices' = step.convertedChoices
        /\ listNumber' = step.listNumber
        /\ listNumbermax' = step.listNumbermax
        /\ choiceSets' = step.choiceSets
        /\ prevGroups' = step.prevGroups
    /\ UNCHANGED <<fileContent, mode, columnsToCopy, forms, formIndex, converted,
                   written, call, ret>>

\* _convertContent, lines 551-554, and convert(), lines 439-442
EndContent ==
    /\ pc = "content"
    /\ rowIndex > Len(currentForm.questions)
    /\ \E questions \in { convertedQuestions \o
                (IF prevGroups > 0 THEN <<endGroup(convertedHeaders)>> ELSE <<>>) } :
          /\ convertedQuestions' = questions
          /\ converted' = Append(converted,
                                 XLSContent(currentForm.name, convertedHeaders,
                                            questions, convertedChoices))
    /\ formIndex' = formIndex + 1
    /\ pc' = "convert"
    /\ UNCHANGED <<fileContent, mode, columnsToCopy, error, forms, rowIndex,
                   convertedChoices, listNumber, listNumbermax, choiceSets,
                   prevGroups, written, call, ret>>

\* XLSWriter.write: one document in single_xls mode, one per form otherwise
Write ==
    /\ pc = "convert"
    /\ formIndex > Len(forms)
    /\ written' = IF mode = "single_xls" THEN <<converted[1]>> ELSE converted
    /\ pc' = "done"
    /\ UNCHANGED <<fileContent, mode, columnsToCopy, error, forms, formIndex,
                   rowIndex, contentVars, converted, call, ret>>

NextRun == ConverterInit \/ BeginContent \/ ConvertRow \/ EndContent \/ Write

SpecForms == InitForms /\ [][NextRun]_vars

SpecGroups == InitGroups /\ [][NextRun]_vars

SpecLists == InitLists /\ [][NextRun]_vars

(***************************************************************************)
(* One converter called on its own: call holds the arguments, ret the      *)
(* result.  The run is not started.                                        *)
(***************************************************************************)

\* the state in which converter calls are made with the arguments of calls
CallInit(calls) ==
    /\ fileContent = RedcapContent(<<>>, RedcapHeaders, <<>>)
    /\ mode = "single_xls"
    /\ columnsToCopy = <<>>
    /\ pc = "call"
    /\ error = "none"
    /\ forms = <<>>
    /\ formIndex = 1
    /\ rowIndex = 1
    /\ convertedQuestions = <<>>
    /\ convertedChoices = <<>>
    /\ listNumber = 0
    /\ listNumbermax = 0
    /\ choiceSets = <<>>
    /\ prevGroups = 0
    /\ converted = <<>>
    /\ written = <<>>
    /\ call \in calls
    /\ ret = NoReturn

Return(value) ==
    /\ pc = "call"
    /\ ~ret.done
    /\ ret' = [done |-> TRUE, val |-> value]
    /\ UNCHANGED <<runVars, call>>

MaxListNumber == 2

FieldTypes ==
    { "yesno", "descriptive", "notes", "calc", "radio", "checkbox", "dropdown",
      "text", "sql", "slider", "file" }

ValidationTypes == { "", "date_dmy", "time", "number", "integer", "email" }

TypeCalls ==
    [converter : {"TypeConverter"}, type_ : FieldTypes, validation : ValidationTypes,
     listNumber : 0..MaxListNumber]

InitType == CallInit(TypeCalls)

\* TypeConverter(type_, validation).convertToXLS(listNumber)
TypeCall ==
    /\ call.converter = "TypeConverter"
    /\ Return(TypeConverter_convertToXLS(call.type_, call.validation, call.listNumber))

SpecType == InitType /\ [][TypeCall]_vars

MaxTerms == 2

\* one comparison of a branching-logic expression, in its parts; option is
\* empty in a scalar comparison
Term(field, option, space, operator, quote, value) ==
    [field |-> field, option |-> option, space |-> space, operator |-> operator,
     quote |-> quote, value |-> value]

\* [age] OP 18, the value bare, in single or in double quotes, with and
\* without spaces around the operator; [ORDER] = 1, a field name with the
\* letters of a keyword; [age] = '1.5', a quoted value with a character that
\* is not a word character
ScalarTerms ==
    { Term(<<"a", "g", "e">>, <<>>, sp, op, q, <<"1", "8">>) :
        sp \in { <<>>, <<" ">> },
        op \in { <<"=">>, <<"<", ">">>, <<">", "=">> },
        q \in { <<>>, <<"'">>, <<"\"">> } }
    \cup { Term(<<"O", "R", "D", "E", "R">>, <<>>, <<" ">>, <<"=">>, <<>>, <<"1">>),
           Term(<<"a", "g", "e">>, <<>>, <<" ">>, <<"=">>, <<"'">>, <<"1", ".", "5">>) }

\* [race(3)] OP 'value', the operator =, != or ==; [race(3)] <> '1'
ArrayTerms ==
    { Term(<<"r", "a", "c", "e">>, <<"3">>, <<" ">>, op, <<"'">>, v) :
        op \in { <<"=">>, <<"!", "=">>, <<"=", "=">> },
        v \in { <<"0">>, <<"1">>, <<"1", "0">>, <<"2">> } }
    \cup { Term(<<"r", "a", "c", "e">>, <<"3">>, <<" ">>, <<"<", ">">>, <<"'">>, <<"1">>) }

\* the text of a comparison
TermText(t) ==
    <<"[">> \o t.field
        \o (IF t.option /= <<>> THEN <<"(">> \o t.option \o <<")">> ELSE <<>>)
        \o <<"]">> \o t.space \o t.operator \o t.space \o t.quote \o t.value \o t.quote

\* the texts joined by ' and '
RECURSIVE JoinAnd(_)
JoinAnd(texts) ==
    IF texts = <<>> THEN <<>>
    ELSE IF Len(texts) = 1 THEN texts[1]
    ELSE texts[1] \o <<" ", "a", "n", "d", " ">> \o JoinAnd(Tail(texts))

RelevantCalls(terms) ==
    { [converter |-> "RelevantConverter", terms |-> ts,
       expression |-> JoinAnd([k \in 1..Len(ts) |-> TermText(ts[k])])] :
        ts \in UNION { [1..n -> terms] : n \in 1..MaxTerms } }

InitScalars == CallInit(RelevantCalls(ScalarTerms))

InitArrays == CallInit(RelevantCalls(ArrayTerms))

\* RelevantConverter(expression).convertToXLS(), with the locals of lines
\* 191-195 beside the result
RelevantCall ==
    /\ call.converter = "RelevantConverter"
    /\ Return([singleVariablesConverted |-> singleVariablesConverted(call.expression),
               arraysConverted |-> arraysConverted(call.expression),
               converted |-> RelevantConverter_convertToXLS(call.expression)])

SpecScalars == InitScalars /\ [][RelevantCall]_vars

SpecArrays == InitArrays /\ [][RelevantCall]_vars

MaxChoices == 2

\* 1,Yes; 1, Yes, sure; 2: No; 2: No: x; 3, a: b; 4:a,b; a definition with
\* neither delimiter
ChoiceDefinitions ==
    { <<"1", ",", "Y", "e", "s">>,
      <<"1", ",", " ", "Y", "e", "s", ",", " ", "s", "u", "r", "e">>,
      <<"2", ":", " ", "N", "o">>,
      <<"2", ":", " ", "N", "o", ":", " ", "x">>,
      <<"3", ",", " ", "a", ":", " ", "b">>,
      <<"4", ":", "a", ",", "b">>,
      <<"x">> }

\* the definitions joined by ' | '
RECURSIVE JoinBar(_)
JoinBar(definitions) ==
    IF definitions = <<>> THEN <<>>
    ELSE IF Len(definitions) = 1 THEN definitions[1]
    ELSE definitions[1] \o <<" ", "|", " ">> \o JoinBar(Tail(definitions))

ChoicesCalls ==
    { [converter |-> "ChoicesConverter", type_ |-> t, definitions |-> ds,
       choices |-> JoinBar(ds)] :
        t \in { <<"select_one", "list_0">>, <<"text">>, <<"calculate">> },
        ds \in UNION { [1..n -> ChoiceDefinitions] : n \in 0..MaxChoices } }

InitChoices == CallInit(ChoicesCalls)

\* ChoicesConverter(type_, choices).convertToXLS()
ChoicesCall ==
    /\ call.converter = "ChoicesConverter"
    /\ Return(ChoicesConverter_convertToXLS(call.type_, call.choices))

SpecChoices == InitChoices /\ [][ChoicesCall]_vars

\* a header row with the headers at i and j in each other's place
Swapped(headers, i, j) == [headers EXCEPT ![i] = headers[j], ![j] = headers[i]]

\* the header rows of an export whose columns were moved: the REDCap order,
\* and every row that differs from it by two columns changing places
HeaderRows ==
    { Swapped(RedcapHeaders, i, j) : i \in 1..Len(RedcapHeaders), j \in 1..Len(RedcapHeaders) }

HeadersCalls ==
    [converter : {"Converter._convertHeaders"}, headers : HeaderRows,
     columns : { <<>>, <<"Identifier?">>, <<"Section Header", "Form Name">> }]

InitHeaders == CallInit(HeadersCalls)

\* Converter(fileContent, mode, columns)._convertHeaders(headers)
HeadersCall ==
    /\ call.converter = "Converter._convertHeaders"
    /\ Return(convertHeaders(call.headers, call.columns))

SpecHeaders == InitHeaders /\ [][HeadersCall]_vars

MaxBoundLen == 2

\* the characters of a Text Validation Min / Max cell
BoundChars == {"1", "9", "-", " "}

\* the cells of up to MaxBoundLen characters, the empty cell among them
BoundCells == UNION { [1..n -> BoundChars] : n \in 0..MaxBoundLen }

ConstraintCalls ==
    [converter : {"ConstraintConverter"}, min_ : BoundCells, max_ : BoundCells]

InitConstraint == CallInit(ConstraintCalls)

\* ConstraintConverter(min_, max_).convertToXLS()
ConstraintCall ==
    /\ call.converter = "ConstraintConverter"
    /\ Return(ConstraintConverter_convertToXLS(call.min_, call.max_))

SpecConstraint == InitConstraint /\ [][ConstraintCall]_vars

\* the spellings of the marker in a Field Annotation cell; <<>> is a cell
\* with no marker
MarkerWords ==
    { <<>>,
      <<"@", "d", "e", "f", "a", "u", "l", "t">>,
      <<"@", "D", "E", "F", "A", "U", "L", "T">>,
      <<"@", "D", "e", "f", "a", "u", "l", "t">> }

DefaultValues == { <<"5">>, <<"n", "o", " ", "1">> }

\* what the cell holds before and after the marker
AnnotationBefore == { <<>>, <<"@", "h", "i", "d", "d", "e", "n", " ">>, <<"s", "e", "e", ":", " ">> }

AnnotationAfter == { <<>>, <<" ", "@", "h", "i", "d", "d", "e", "n">>, <<" ", "x">> }

DefaultsCalls ==
    [converter : {"DeafultsConverter"}, before : AnnotationBefore, word : MarkerWords,
     left : {<<>>, <<" ">>}, right : {<<>>, <<" ">>}, quote : {<<>>} \cup { <<q>> : q \in QuoteChars },
     value : DefaultValues, after : AnnotationAfter]

\* the Field Annotation cell of a call
AnnotationText(c) ==
    IF c.word = <<>>
    THEN c.before \o c.after
    ELSE c.before \o c.word \o c.left \o <<"=">> \o c.right
            \o c.quote \o c.value \o c.quote \o c.after

InitDefaults == CallInit(DefaultsCalls)

\* DeafultsConverter(annotation).convertToXLS()
DefaultsCall ==
    /\ call.converter = "DeafultsConverter"
    /\ Return(DeafultsConverter_convertToXLS(AnnotationText(call)))

SpecDefaults == InitDefaults /\ [][DefaultsCall]_vars

(***************************************************************************)
(* All of it: a run on a table of any family, or one converter call.       *)
(***************************************************************************)
Init ==
    \/ InitForms
    \/ InitGroups
    \/ InitLists
    \/ InitType
    \/ InitScalars
    \/ InitArrays
    \/ InitChoices
    \/ InitHeaders
    \/ InitConstraint
    \/ InitDefaults

Next ==
    \/ NextRun
    \/ TypeCall
    \/ RelevantCall
    \/ ChoicesCall
    \/ HeadersCall
    \/ ConstraintCall
    \/ DefaultsCall

Spec == Init /\ [][Next]_vars

(***************************************************************************)
(* The claims.                                                             *)
(***************************************************************************)

\* the XLSForm type and the list increment that C10 states for a field
C10_Resolved(type_, validation, number) ==
    IF type_ = "yesno" THEN <<(<<"select_one", "yes_no">>), 0>>
    ELSE IF type_ = "descriptive" THEN <<(<<"note">>), 0>>
    ELSE IF type_ = "notes" THEN <<(<<"text">>), 0>>
    ELSE IF type_ = "calc" THEN <<(<<"calculate">>), 0>>
    ELSE IF type_ = "radio"
         THEN <<(<<"select_one", "list_" \o ToString(number)>>), 1>>
    ELSE IF type_ = "checkbox"
         THEN <<(<<"select_multiple", "list_" \o ToString(number)>>), 1>>
    ELSE IF type_ = "dropdown"
         THEN <<(<<"select_one", "list_" \o ToString(number)>>), 1>>
    ELSE IF validation = "date_dmy" THEN <<(<<"date">>), 0>>
    ELSE IF validation = "time" THEN <<(<<"time">>), 0>>
    ELSE IF validation = "number" THEN <<(<<"decimal">>), 0>>
    ELSE IF validation = "integer" THEN <<(<<"integer">>), 0>>
    ELSE <<(<<"text">>), 0>>

\* C10: TypeConverter.convertToXLS resolves every (field type, validation
\* type, list number) by the first matching rule of: yesno; descriptive,
\* notes, calc; radio, checkbox, dropdown with list_<listNumber>; the
\* validation types date_dmy, time, number, integer; otherwise text.  The
\* increment is 1 exactly for radio, checkbox and dropdown.
C10_TypeResolution ==
    (call.converter = "TypeConverter" /\ ret.done) =>
        /\ ret.val = C10_Resolved(call.type_, call.validation, call.listNumber)
        /\ ret.val[2] = 1 <=> call.type_ \in {"radio", "checkbox", "dropdown"}

\* a radio field with an integer validation has been resolved by its field
\* type, with list number 2
C10_Witness ==
    /\ call.converter = "TypeConverter"
    /\ ret.done
    /\ call.type_ = "radio"
    /\ call.validation = "integer"
    /\ call.listNumber = 2
    /\ ret.val = <<(<<"select_one", "list_2">>), 1>>

\* selected('field','option'), in not(...) by the rule of C7
C7_Selected(t) ==
    IF \/ t.operator = <<"=">> /\ t.value[Len(t.value)] = "0"
       \/ t.operator = <<"!", "=">> /\ t.value[Len(t.value)] = "1"
    THEN <<"n","o","t","(","s","e","l","e","c","t","e","d","(","'">> \o t.field
            \o <<"'", ",", "'">> \o t.option \o <<"'", ")", ")">>
    ELSE <<"s","e","l","e","c","t","e","d","(","'">> \o t.field
            \o <<"'", ",", "'">> \o t.option \o <<"'", ")">>

\* the expression of the call is made of array references only
C7_ArraysOnly ==
    /\ call.converter = "RelevantConverter"
    /\ ret.done
    /\ \A k \in 1..Len(call.terms) : call.terms[k].option /= <<>>

\* every array reference of the call has been rewritten by the rule of C7
C7_Rewritten ==
    /\ ret.val.arraysConverted =
        Ok(JoinAnd([k \in 1..Len(call.terms) |-> C7_Selected(call.terms[k])]))
    /\ ret.val.converted = ret.val.arraysConverted

\* C7: RelevantConverter rewrites every array reference [field(option)] OP
\* value of an expression to selected('field','option'), wrapped in not(...)
\* exactly when OP is = and the value ends in 0, or OP is != and the value
\* ends in 1, and left bare otherwise, each reference by its own operator
\* and value.
C7_ArrayReferences == C7_ArraysOnly => C7_Rewritten

\* C7 for the operators arrayRegex reads, those made of ! and =: every
\* reference is rewritten by the rule.
C7_NegationRule ==
    (C7_ArraysOnly /\ \A k \in 1..Len(call.terms) : call.terms[k].operator /= <<"<", ">">>)
        => C7_Rewritten

\* C7: the expression [race(3)] <> '1' has made convertToXLS raise
C7_Raised ==
    /\ C7_ArraysOnly
    /\ Len(call.terms) = 1
    /\ call.terms[1].operator = <<"<", ">">>
    /\ ret.val.converted.err = "IndexError"

\* two array references of one expression have been rewritten, the first
\* left bare and the second negated
C7_Witness ==
    /\ call.converter = "RelevantConverter"
    /\ ret.done
    /\ Len(call.terms) = 2
    /\ call.terms[1].option /= <<>>
    /\ call.terms[1].operator = <<"=">> /\ call.terms[1].value = <<"1">>
    /\ call.terms[2].operator = <<"=">> /\ call.terms[2].value = <<"1", "0">>
    /\ ret.val.converted.err = "none"
    /\ ret.val.converted.val =
        <<"s","e","l","e","c","t","e","d","(","'","r","a","c","e","'",",","'","3","'",")",
          " ","a","n","d"," ",
          "n","o","t","(","s","e","l","e","c","t","e","d","(","'","r","a","c","e","'",",",
          "'","3","'",")",")">>

\* the word characters a value starts with
RECURSIVE C8_Word(_)
C8_Word(value) ==
    IF value = <<>> \/ value[1] \notin WordChars THEN <<>>
    ELSE <<value[1]>> \o C8_Word(Tail(value))

\* what follows them in the text: the rest of the value and its closing quote
C8_Rest(t) ==
    IF C8_Word(t.value) = t.value THEN <<>>
    ELSE SubSeq(t.value, Len(C8_Word(t.value)) + 1, Len(t.value)) \o t.quote

\* ${field} OP value, the word the value starts with inside the quotes the
\* value had, then what follows it
C8_Quoted(t) ==
    <<"$", "{">> \o t.field \o <<"}", " ">> \o t.operator \o <<" ">>
        \o t.quote \o C8_Word(t.value) \o t.quote \o C8_Rest(t)

\* a text with every occurrence of a word, in any letter case, replaced
RECURSIVE C8_Replaced(_, _, _)
C8_Replaced(text, word, by) ==
    IF Len(text) < Len(word) THEN text
    ELSE IF [k \in 1..Len(word) |-> Lower(text[k])] = word
    THEN by \o C8_Replaced(SubSeq(text, Len(word) + 1, Len(text)), word, by)
    ELSE <<text[1]>> \o C8_Replaced(Tail(text), word, by)

\* a text with <> written !=, then or and and written in lower case
C8_Final(text) ==
    C8_Replaced(C8_Replaced(C8_Replaced(text, <<"<", ">">>, <<"!", "=">>),
                            <<"o", "r">>, <<"o", "r">>),
                <<"a", "n", "d">>, <<"a", "n", "d">>)

\* ${field} OP value, the value without its quotes
C8_Stripped(t) ==
    <<"$", "{">> \o t.field \o <<"}", " ">> \o t.operator \o <<" ">> \o t.value

\* C8, as amended: for an expression made only of scalar comparisons,
\* RelevantConverter rewrites each [field] OP value to ${field} OP value
\* with one space on each side of the operator, the operator verbatim and
\* the value inside the quotes it had (of a value with other than word
\* characters, the word it starts with is quoted and the rest follows), and
\* substitutes no array reference; the result is that text with every <>
\* written != and every or and and, in any letter case, in lower case.
C8_ScalarComparisons ==
    (call.converter = "RelevantConverter" /\ ret.done
        /\ \A k \in 1..Len(call.terms) : call.terms[k].option = <<>>) =>
        /\ ret.val.singleVariablesConverted =
            JoinAnd([k \in 1..Len(call.terms) |-> C8_Quoted(call.terms[k])])
        /\ ret.val.arraysConverted = Ok(ret.val.singleVariablesConverted)
        /\ ret.val.converted = Ok(C8_Final(ret.val.singleVariablesConverted))

\* [age]>'18' and [age] <> "18" has been rewritten
C8_Witness ==
    /\ call.converter = "RelevantConverter"
    /\ ret.done
    /\ Len(call.terms) = 2
    /\ call.terms[1] = Term(<<"a", "g", "e">>, <<>>, <<>>, <<">", "=">>, <<"'">>, <<"1", "8">>)
    /\ call.terms[2] = Term(<<"a", "g", "e">>, <<>>, <<" ">>, <<"<", ">">>, <<"\"">>,
                            <<"1", "8">>)
    /\ ret.val.arraysConverted.val =
        <<"$","{","a","g","e","}"," ",">","="," ","'","1","8","'",
          " ","a","n","d"," ",
          "$","{","a","g","e","}"," ","<",">"," ","\"","1","8","\"">>

\* C8, as the claim states it: each [field] OP value is rewritten to
\* ${field} OP value with the quotes around the value stripped.
C8_QuotesStripped ==
    (call.converter = "RelevantConverter" /\ ret.done
        /\ \A k \in 1..Len(call.terms) : call.terms[k].option = <<>>) =>
        /\ ret.val.singleVariablesConverted =
            JoinAnd([k \in 1..Len(call.terms) |-> C8_Stripped(call.terms[k])])
        /\ ret.val.arraysConverted = Ok(ret.val.singleVariablesConverted)

\* where C9 cuts a definition: at its first comma if it has one, otherwise
\* at its first colon; 0 when it has neither
C9_Cut(definition) ==
    IF Index(definition, ",") /= 0 THEN Index(definition, ",")
    ELSE Index(definition, ":")

\* C9: for a type that is not calculate, ChoicesConverter cuts each
\* definition of the cell at its first comma, otherwise at its first colon;
\* the name is the trimmed text left of the cut and the label the trimmed
\* text of everything right of it; a definition with neither delimiter raises.
C9_NameAndLabel ==
    (call.converter = "ChoicesConverter" /\ ret.done /\ call.type_ /= <<"calculate">>) =>
        IF \E k \in 1..Len(call.definitions) : C9_Cut(call.definitions[k]) = 0
        THEN ret.val.err /= "none"
        ELSE /\ ret.val.err = "none"
             /\ Len(ret.val.val) = Len(call.definitions)
             /\ \A k \in 1..Len(call.definitions) :
                    /\ ret.val.val[k].name =
                        Strip(SubSeq(call.definitions[k], 1,
                                     C9_Cut(call.definitions[k]) - 1))
                    /\ ret.val.val[k].label =
                        Strip(SubSeq(call.definitions[k],
                                     C9_Cut(call.definitions[k]) + 1,
                                     Len(call.definitions[k])))

\* the cell 1, Yes, sure has been converted to the name 1 and the label Yes
C9_Witness ==
    /\ call.converter = "ChoicesConverter"
    /\ ret.done
    /\ call.type_ = <<"select_one", "list_0">>
    /\ call.choices = <<"1", ",", " ", "Y", "e", "s", ",", " ", "s", "u", "r", "e">>
    /\ ret.val.err = "none"
    /\ ret.val.val[1].name = <<"1">>
    /\ ret.val.val[1].label = <<"Y", "e", "s">>

\* the cell of input line i under a header
InputCell(i, header) == fileContent.questions[i][Index(fileContent.headers, header)]

\* input line i is not a blank line
InputRow(i) == fileContent.questions[i] /= <<>>

\* some requested copy column is not a header of the input
C6_Missing == \E k \in 1..Len(columnsToCopy) : columnsToCopy[k] \notin Range(fileContent.headers)

\* C6: when a copy column is not among the input headers, the run fails with
\* ColumnToCopyDoesNotExistException before any row is examined: no form has
\* been separated, no cross-form check has raised, no row has been converted
\* and nothing is written, in both modes.
C6_ColumnsCheckedFirst ==
    (C6_Missing /\ pc /= "start") =>
        /\ pc = "failed"
        /\ error = "ColumnToCopyDoesNotExistException"
        /\ forms = <<>>
        /\ convertedQuestions = <<>>
        /\ converted = <<>>
        /\ written = <<>>

\* the run has failed on a missing copy column in zip_xls mode, on an input
\* whose first row refers to a field no earlier row defines
C6_Witness ==
    /\ C6_Missing
    /\ pc = "failed"
    /\ error = "ColumnToCopyDoesNotExistException"
    /\ mode = "zip_xls"
    /\ Len(fileContent.questions) > 0
    /\ InputRow(1)
    /\ InputCell(1, "Branching Logic (Show field only if...)") /= <<>>

\* the last line before line i that is a row with a form name, 0 if none
C2_LastNamed(i) ==
    IF \E j \in 1..(i - 1) : InputRow(j) /\ InputCell(j, "Form Name") /= <<>>
    THEN CHOOSE j \in 1..(i - 1) :
            /\ InputRow(j) /\ InputCell(j, "Form Name") /= <<>>
            /\ \A k \in (j + 1)..(i - 1) :
                    ~(InputRow(k) /\ InputCell(k, "Form Name") /= <<>>)
    ELSE 0

\* row i opens a unit: it is the first line, or it has a form name that is
\* not the form name last seen
C2_Opens(i) ==
    \/ i = 1
    \/ /\ InputRow(i)
       /\ InputCell(i, "Form Name") /= <<>>
       /\ \/ C2_LastNamed(i) = 0
          \/ InputCell(C2_LastNamed(i), "Form Name") /= InputCell(i, "Form Name")

\* the line that opens the unit of line i
C2_UnitStart(i) ==
    CHOOSE j \in 1..i : C2_Opens(j) /\ \A k \in (j + 1)..i : ~C2_Opens(k)

\* the field names of the rows before row i in its unit
C2_EarlierNames(i) ==
    { InputCell(j, "Variable / Field Name") :
        j \in { k \in C2_UnitStart(i)..(i - 1) : InputRow(k) } }

\* the field names row i refers to: in its branching logic, and in its
\* calculation when its type is calc
C2_Refers(i) ==
    Range(extractVariables(InputCell(i, "Branching Logic (Show field only if...)")))
        \cup (IF InputCell(i, "Field Type") = "calc"
              THEN Range(extractVariables(
                        InputCell(i, "Choices, Calculations, OR Slider Labels")))
              ELSE {})

\* some row refers to a name that no earlier row of its unit has
C2_BadReference ==
    \E i \in 1..Len(fileContent.questions) :
        InputRow(i) /\ ~(C2_Refers(i) \subseteq C2_EarlierNames(i))

\* the first line of the input is missing or blank
C2_NoFirstRow == fileContent.questions = <<>> \/ ~InputRow(1)

C2_EarlierNamesOfForm(i) ==
    { InputCell(j, "Variable / Field Name") :
        j \in { k \in 1..(i - 1) :
                    InputRow(k) /\ InputCell(k, "Form Name") = InputCell(i, "Form Name") } }

C3_InputRows == SelectSeq(fileContent.questions, LAMBDA row : row /= <<>>)

\* the rows of the units, one unit after the other
C3_UnitRows == Flatten([k \in 1..Len(forms) |-> forms[k].questions])

\* the form name of row r of unit k
C3_FormName(k, r) == forms[k].questions[r][Index(forms[k].headers, "Form Name")]

\* the Converter has been constructed in zip_xls mode without an error
C3_Separated == mode = "zip_xls" /\ pc /= "start" /\ error = "none"

\* C3 (amended): in zip_xls mode, when the constructor raises nothing, the
\* units hold the rows of the input (blank lines left out) in their order,
\* none lost or duplicated; a unit is named after its first row; every row
\* of a unit has the unit's name as Form Name or an empty Form Name; a new
\* unit starts at every row whose form name is not empty and differs from
\* the current unit's name.  An input whose first line is missing or blank
\* makes the constructor raise IndexError.
C3_FormUnits ==
    /\ C3_Separated =>
        /\ C3_UnitRows = C3_InputRows
        /\ \A k \in 1..Len(forms) :
            /\ forms[k].headers = fileContent.headers
            /\ forms[k].questions /= <<>>
            /\ forms[k].name = C3_FormName(k, 1)
            /\ k > 1 => (forms[k].name /= <<>> /\ forms[k].name /= forms[k - 1].name)
            /\ \A r \in 1..Len(forms[k].questions) :
                    C3_FormName(k, r) \in {forms[k].name, <<>>}
    /\ (mode = "zip_xls" /\ pc /= "start" /\ ~C6_Missing /\ C2_NoFirstRow) =>
            error = "IndexError"

\* the input has been separated, a row with an empty Form Name staying in
\* the unit of form A
C3_Witness ==
    /\ C3_Separated
    /\ Len(forms) = 1
    /\ Len(forms[1].questions) = 2
    /\ forms[1].name = <<"A">>
    /\ C3_FormName(1, 2) = <<>>

\* C3 as stated: every row of a unit has the unit's name as its Form Name,
\* and the units in order give the rows of the input.
C3_RowsOfTheNamedForm ==
    C3_Separated =>
        /\ C3_UnitRows = C3_InputRows
        /\ \A k \in 1..Len(forms) :
            \A r \in 1..Len(forms[k].questions) : C3_FormName(k, r) = forms[k].name

\* the type cell of a survey row
TypeOf(surveyRow) == surveyRow[Index(convertedHeaders, "type")]

\* the positions of the survey rows of a type
PositionsOf(questions, type_) == { i \in 1..Len(questions) : TypeOf(questions[i]) = type_ }

\* the position of the k-th survey row of a type
NthOf(questions, type_, k) ==
    CHOOSE i \in PositionsOf(questions, type_) :
        Cardinality({ j \in PositionsOf(questions, type_) : j <= i }) = k

\* the positions of the input rows with a section header
C4_SectionRows(rows) ==
    { i \in 1..Len(rows) :
        rows[i] /= <<>> /\ rows[i][Index(RedcapHeaders, "Section Header")] /= <<>> }

\* the position of the k-th input row with a section header
C4_NthSection(rows, k) ==
    CHOOSE i \in C4_SectionRows(rows) :
        Cardinality({ j \in C4_SectionRows(rows) : j <= i }) = k

\* the field rows among the first n survey rows
C4_FieldsBefore(questions, n) ==
    Cardinality({ i \in 1..(n - 1) :
                    TypeOf(questions[i]) \notin {BeginGroupType, EndGroupType} })

\* the input rows with a field name before row n
C4_NamedBefore(rows, n) ==
    Cardinality({ i \in 1..(n - 1) :
                    rows[i] /= <<>>
                        /\ rows[i][Index(RedcapHeaders, "Variable / Field Name")] /= <<>> })

\* the groups open after the first n survey rows
C4_Open(questions, n) ==
    Cardinality({ i \in PositionsOf(questions, BeginGroupType) : i <= n })
        - Cardinality({ i \in PositionsOf(questions, EndGroupType) : i <= n })

\* the survey rows made from the rows of a form bracket its sections; closed
\* tells whether the form is finished
C4_Bracketed(rows, questions, closed) ==
    /\ Cardinality(PositionsOf(questions, BeginGroupType)) = Cardinality(C4_SectionRows(rows))
    /\ \A k \in 1..Cardinality(C4_SectionRows(rows)) :
        /\ questions[NthOf(questions, BeginGroupType, k)][Index(convertedHeaders, "name")]
                = <<"g", "r", "o", "u", "p", "_">> \o Str(k)
        /\ questions[NthOf(questions, BeginGroupType, k)][Index(convertedHeaders, "label")]
                = rows[C4_NthSection(rows, k)][Index(RedcapHeaders, "Section Header")]
        /\ C4_FieldsBefore(questions, NthOf(questions, BeginGroupType, k))
                = C4_NamedBefore(rows, C4_NthSection(rows, k))
        /\ k > 1 =>
            TypeOf(questions[NthOf(questions, BeginGroupType, k) - 1]) = EndGroupType
    /\ \A i \in PositionsOf(questions, EndGroupType) :
        \/ i < Len(questions) /\ TypeOf(questions[i + 1]) = BeginGroupType
        \/ i = Len(questions) /\ closed
    /\ \A n \in 0..Len(questions) : C4_Open(questions, n) \in {0, 1}
    /\ closed => C4_Open(questions, Len(questions)) = 0

\* C4: the survey rows of a form, while it is converted and when it is
\* finished, bracket its sections: the k-th row with a section header is
\* preceded by a begin group row named group_k and labelled with the header,
\* placed after the field rows of the rows before it; an end group row
\* stands before every begin group row but the first, and once more at the
\* end of a form that opened a group; at most one group is open at any point
\* and the rows of a finished form are balanced.
C4_GroupsBracketed ==
    /\ (pc = "convert" /\ formIndex > 1) =>
            C4_Bracketed(forms[formIndex - 1].questions,
                         converted[formIndex - 1].questions, TRUE)
    /\ pc = "content" =>
            C4_Bracketed(SubSeq(currentForm.questions, 1, rowIndex - 1),
                         convertedQuestions, FALSE)

\* a form with three rows, two of them with a section header, is finished:
\* its survey has two begin group rows and two end group rows
C4_Witness ==
    /\ Len(converted) > 0
    /\ Len(forms[1].questions) = 3
    /\ Cardinality(C4_SectionRows(forms[1].questions)) = 2
    /\ Cardinality(PositionsOf(converted[1].questions, BeginGroupType)) = 2
    /\ Cardinality(PositionsOf(converted[1].questions, EndGroupType)) = 2
    /\ Len(converted[1].questions) = 7

\* the row _convertContent is about to convert has an empty field name
C5_AtEmptyName ==
    /\ pc = "content"
    /\ rowIndex <= Len(currentForm.questions)
    /\ currentForm.questions[rowIndex] /= <<>>
    /\ currentForm.questions[rowIndex][Index(RedcapHeaders, "Variable / Field Name")] = <<>>

\* C5: a row whose field name is empty is dropped: converting it adds no
\* row to the survey of the form (no field row, no group row) and no entry
\* to its choices.
C5_EmptyNameDropped ==
    [][C5_AtEmptyName =>
        (convertedQuestions' = convertedQuestions /\ convertedChoices' = convertedChoices)]_vars

\* a row with an empty field name and the section header S has been
\* converted, and the survey ends with the begin group row it added
C5_Witness ==
    /\ pc = "content"
    /\ rowIndex > 1
    /\ currentForm.questions[rowIndex - 1] /= <<>>
    /\ currentForm.questions[rowIndex - 1][Index(RedcapHeaders, "Variable / Field Name")] = <<>>
    /\ currentForm.questions[rowIndex - 1][Index(RedcapHeaders, "Section Header")] = <<"S">>
    /\ convertedQuestions /= <<>>
    /\ TypeOf(convertedQuestions[Len(convertedQuestions)]) = BeginGroupType

\* the option names of a row: its choices cell cut at the bars, each piece
\* up to its first comma
C1_OptionNames(row) ==
    { Strip(Split(separateChoices(
                    row[Index(RedcapHeaders, "Choices, Calculations, OR Slider Labels")])[k],
                  ",")[1]) :
        k \in 1..Len(separateChoices(
                    row[Index(RedcapHeaders, "Choices, Calculations, OR Slider Labels")])) }

\* the positions of the rows of a form whose field takes its options from a
\* list: radio, checkbox, dropdown
C1_ListFields(rows) ==
    { i \in 1..Len(rows) :
        rows[i][Index(RedcapHeaders, "Field Type")] \in {"radio", "checkbox", "dropdown"} }

\* the list a survey row names in its type cell
C1_ListName(surveyRow) == TypeOf(surveyRow)[2]

\* C1 for one form, each row of which has made one survey row
C1_Form(rows, questions) ==
    /\ \A i, j \in C1_ListFields(rows) :
        (C1_OptionNames(rows[i]) = C1_OptionNames(rows[j]))
            <=> (C1_ListName(questions[i]) = C1_ListName(questions[j]))
    /\ \A i \in C1_ListFields(rows) :
        (\A j \in C1_ListFields(rows) : i <= j) => C1_ListName(questions[i]) = "list_0"

\* C1: within a form, two fields with equal option-name sets get the same
\* list name, two fields with different sets get different list names, and
\* the first list of every form is list_0.
C1_ListsShared ==
    \A f \in 1..Len(converted) :
        Len(converted[f].questions) = Len(forms[f].questions)
            => C1_Form(forms[f].questions, converted[f].questions)

\* a form of an sql field and two radio fields with the same options is
\* finished, the radio fields naming list_0 and list_1
C1_Witness ==
    /\ Len(converted) > 0
    /\ Len(forms[1].questions) = 3
    /\ forms[1].questions[1][Index(RedcapHeaders, "Field Type")] = "sql"
    /\ forms[1].questions[2] = forms[1].questions[3]
    /\ forms[1].questions[2][Index(RedcapHeaders, "Field Type")] = "radio"
    /\ C1_ListName(converted[1].questions[2]) = "list_0"
    /\ C1_ListName(converted[1].questions[3]) = "list_1"

\* the recognized headers of the header row of the call, in its order
C11_Recognized ==
    SelectSeq(call.headers, LAMBDA h : h \in DOMAIN headersConversionLookup)

\* C11 (amended): the survey header row lists the output names of the
\* recognized input headers in the order in which those headers stand in
\* the input header row, then calculation, default, read_only, then the
\* pass-through columns in the order requested.
C11_HeaderOrder ==
    (call.converter = "Converter._convertHeaders" /\ ret.done) =>
        ret.val = [k \in 1..Len(C11_Recognized) |-> headersConversionLookup[C11_Recognized[k]]]
                    \o <<"calculation", "default", "read_only">> \o call.columns

\* the header row of a REDCap export, with Field Note before Text Validation
\* Min, has been converted with the pass-through column Identifier?
C11_Witness ==
    /\ call.converter = "Converter._convertHeaders"
    /\ ret.done
    /\ call.headers = RedcapHeaders
    /\ call.columns = <<"Identifier?">>
    /\ ret.val = <<"name", "type", "label", "hint", "constraint", "relevant", "required",
                   "calculation", "default", "read_only", "Identifier?">>

\* C11 as stated: whatever the order of the input headers, the survey header
\* row is name, type, label, constraint, relevant, required, hint,
\* calculation, default, read_only, then the pass-through columns.
C11_FixedOrder ==
    (call.converter = "Converter._convertHeaders" /\ ret.done) =>
        ret.val = <<"name", "type", "label", "constraint", "relevant", "required", "hint",
                    "calculation", "default", "read_only">> \o call.columns

\* the text '(. >= min)' of the call
C12_Lower == <<"(", ".", " ", ">", "=", " ">> \o call.min_ \o <<")">>

\* the text '(. <= max)' of the call
C12_Upper == <<"(", ".", " ", "<", "=", " ">> \o call.max_ \o <<")">>

\* C12: ConstraintConverter returns '(. >= min) and (. <= max)' when both
\* bounds are non-empty, '(. >= min)' when only min is, '(. <= max)' when
\* only max is, and the empty string when neither is.
C12_Constraint ==
    (call.converter = "ConstraintConverter" /\ ret.done) =>
        /\ (call.min_ /= <<>> /\ call.max_ /= <<>>) =>
                ret.val = C12_Lower \o <<" ", "a", "n", "d", " ">> \o C12_Upper
        /\ (call.min_ /= <<>> /\ call.max_ = <<>>) => ret.val = C12_Lower
        /\ (call.min_ = <<>> /\ call.max_ /= <<>>) => ret.val = C12_Upper
        /\ (call.min_ = <<>> /\ call.max_ = <<>>) => ret.val = <<>>

\* the bounds 1 and 99 have been converted to '(. >= 1) and (. <= 99)'
C12_Witness ==
    /\ call.converter = "ConstraintConverter"
    /\ ret.done
    /\ call.min_ = <<"1">>
    /\ call.max_ = <<"9", "9">>
    /\ ret.val = <<"(", ".", " ", ">", "=", " ", "1", ")", " ", "a", "n", "d", " ",
                   "(", ".", " ", "<", "=", " ", "9", "9", ")">>

\* C13: for an annotation cell that contains the marker @default = <value>,
\* in any letter case, with or without spaces around = and with the value
\* quoted or not, the default output is exactly <value>, whatever else the
\* cell contains; for a cell without the marker it is the empty string.
C13_DefaultValue ==
    (call.converter = "DeafultsConverter" /\ ret.done) =>
        ret.val = IF call.word /= <<>> THEN call.value ELSE <<>>

\* the cell `@default = 5 @hidden` has been converted to the default
\* `5 @hidden`
C13_Witness ==
    /\ call.converter = "DeafultsConverter"
    /\ ret.done
    /\ AnnotationText(call) = <<"@", "d", "e", "f", "a", "u", "l", "t", " ", "=", " ", "5",
                                " ", "@", "h", "i", "d", "d", "e", "n">>
    /\ ret.val = <<"5", " ", "@", "h", "i", "d", "d", "e", "n">>

\* what the code does: a quoted value, or an unquoted one that ends the cell,
\* is the default; after an unquoted value the rest of the cell is taken too
C13_UpToTheNextQuote ==
    (call.converter = "DeafultsConverter" /\ ret.done) =>
        ret.val = IF call.word = <<>> THEN <<>>
                  ELSE IF call.quote /= <<>> THEN call.value
                  ELSE call.value \o call.after

\* C14: the or/and pass of convertToXLS is a no-op: the result is what the
\* passes before it have made of the expression (lines 191-199), so the
\* letter case of the keywords, field names and literals is preserved.
C14_OrAndNoOp ==
    (call.converter = "RelevantConverter" /\ ret.done /\ ret.val.converted.err = "none") =>
        ret.val.converted.val = differentConverted(call.expression)

\* [ORDER] = 1 has been converted to ${orDER} = 1
C14_Witness ==
    /\ call.converter = "RelevantConverter"
    /\ ret.done
    /\ call.expression = <<"[", "O", "R", "D", "E", "R", "]", " ", "=", " ", "1">>
    /\ differentConverted(call.expression)
            = <<"$", "{", "O", "R", "D", "E", "R", "}", " ", "=", " ", "1">>
    /\ ret.val.converted = Ok(<<"$", "{", "o", "r", "D", "E", "R", "}", " ", "=", " ", "1">>)

\* text holds the characters < > side by side
C15_HasDifferent(text) ==
    \E k \in 1..(Len(text) - 1) : text[k] = "<" /\ text[k + 1] = ">"

\* C15: for every expression, array-membership tests written with <>
\* included, convertToXLS returns a result, and it is the text the earlier
\* passes made with every <> written != (no <> is left in it).
C15_DifferentReplaced ==
    (call.converter = "RelevantConverter" /\ ret.done) =>
        /\ ret.val.converted.err = "none"
        /\ ~C15_HasDifferent(ret.val.converted.val)
        /\ ret.val.converted.val = C8_Final(ret.val.arraysConverted.val)

\* [race(3)] = '1' and [race(3)] <> '1' has made convertToXLS raise
\* IndexError
C15_Witness ==
    /\ call.converter = "RelevantConverter"
    /\ ret.done
    /\ Len(call.terms) = 2
    /\ call.terms[1] = Term(<<"r", "a", "c", "e">>, <<"3">>, <<" ">>, <<"=">>, <<"'">>, <<"1">>)
    /\ call.terms[2] = Term(<<"r", "a", "c", "e">>, <<"3">>, <<" ">>, <<"<", ">">>, <<"'">>,
                            <<"1">>)
    /\ ret.val.converted = Raise("IndexError")

\* what holds of <>: an expression of scalar comparisons is converted with
\* every <> written !=
C15_ScalarDifferent ==
    (call.converter = "RelevantConverter" /\ ret.done) =>
        /\ ret.val.converted.err = "none"
        /\ ~C15_HasDifferent(ret.val.converted.val)

\* the survey row's type is select_one list_<N> or select_multiple list_<N>
C16_NamesAList(surveyRow) ==
    /\ Len(TypeOf(surveyRow)) = 2
    /\ TypeOf(surveyRow)[1] \in {"select_one", "select_multiple"}
    /\ TypeOf(surveyRow)[2] /= "yes_no"

\* the option names of the choices entries of a list
C16_NamesOfList(choices, listName) ==
    { choices[k].name : k \in { n \in 1..Len(choices) : choices[n].listName = listName } }

\* C16 for one form, each row of which has made one survey row
C16_Form(rows, content) ==
    /\ \A i \in 1..Len(content.questions) :
        C16_NamesAList(content.questions[i]) =>
            /\ C16_NamesOfList(content.choices, TypeOf(content.questions[i])[2]) /= {}
            /\ C16_NamesOfList(content.choices, TypeOf(content.questions[i])[2])
                    = C1_OptionNames(rows[i])
    /\ \A k \in 1..Len(content.choices) :
        content.choices[k].listName /= "yes_no" =>
            \E i \in 1..Len(content.questions) :
                /\ C16_NamesAList(content.questions[i])
                /\ TypeOf(content.questions[i])[2] = content.choices[k].listName

\* C16: after _convertContent the list names of the two sheets agree: every
\* survey row of type select_one list_<N> or select_multiple list_<N> has
\* choices entries named list_<N>, whose option names are exactly the row's
\* own, and every choices entry but the two yes_no ones carries a list name
\* that some survey row's type names.
C16_ListNamesConsistent ==
    \A f \in 1..Len(converted) :
        Len(converted[f].questions) = Len(forms[f].questions)
            => C16_Form(forms[f].questions, converted[f])

\* a form of an sql field with the cell `s,q` and two radio fields is
\* finished: its choices sheet has an entry with no list name and none of
\* list_1, which the last survey row names
C16_Witness ==
    /\ Len(converted) > 0
    /\ Len(forms[1].questions) = 3
    /\ forms[1].questions[1][Index(RedcapHeaders, "Field Type")] = "sql"
    /\ TypeOf(converted[1].questions[3]) = <<"select_one", "list_1">>
    /\ C16_NamesOfList(converted[1].choices, "list_1") = {}
    /\ C16_NamesOfList(converted[1].choices, None) = { <<"s">> }

\* every row of the form is a list field with a choices cell that is not
\* empty
C16_ListFieldsOnly(rows) ==
    \A i \in 1..Len(rows) :
        /\ i \in C1_ListFields(rows)
        /\ C1_OptionNames(rows[i]) /= {}

\* what holds of the list names: they agree between the sheets in every form
\* made of list fields with non-empty choices cells
C16_ConsistentOnListFields ==
    \A f \in 1..Len(converted) :
        (/\ Len(converted[f].questions) = Len(forms[f].questions)
         /\ C16_ListFieldsOnly(forms[f].questions))
            => C16_Form(forms[f].questions, converted[f])

=============================================================================
